---- MODULE Spec2Model ----
(***************************************************************************)
(* Model of generate_report_summary.py: one run of main(), which reads a   *)
(* JSON payload from stdin, builds the attendance summary and writes it to *)
(* stdout, or reports an exception on stderr.                              *)
(*                                                                         *)
(* Numbers.  A Python float is modelled by its decimal value in            *)
(* thousandths (field n) together with the sign e of the representation    *)
(* error of the binary double (e = 0 exactly when the value is a dyadic    *)
(* rational, i.e. n is a multiple of 125).  round(x, 2) and "{x:.2f}" are   *)
(* correctly rounded on the double, so e decides the direction at a        *)
(* decimal tie and an exact tie goes to the even neighbour.  Values        *)
(* rounded to two decimals are kept in hundredths.  Integers are Python    *)
(* ints within the range of a double; strings are non-numeric text.        *)
(***************************************************************************)
EXTENDS Integers, Sequences, FiniteSets, TLC

VARIABLES stdin, pc, payload, rows, totals, total_hours, record_count,
          user_count, anomalies, idx, average_hours, summary,
          stdout, stderr, ret, exc

vars == <<stdin, pc, payload, rows, totals, total_hours, record_count,
          user_count, anomalies, idx, average_hours, summary,
          stdout, stderr, ret, exc>>

(***************************************************************************)
(* Bounds of the input space.                                              *)
(***************************************************************************)
MaxRowsA == 2
MaxRowsU == 4

(***************************************************************************)
(* JSON values as json.loads produces them.                                *)
(***************************************************************************)
Val(t, n, e, s) == [t |-> t, n |-> n, e |-> e, s |-> s]
Absent == Val("absent", 0, 0, "")
Null == Val("null", 0, 0, "")
JInt(k) == Val("int", k, 0, "")
JFloat(m, e) == Val("float", m, e, "")
JStr(s) == Val("str", 0, 0, s)
JTrue == Val("bool", 1, 0, "")
JList(k) == Val("list", k, 0, "")

Row(u, d, h) == [t |-> "dict", username |-> u, date |-> d, hours |-> h]
NullRow == [t |-> "null", username |-> Absent, date |-> Absent, hours |-> Absent]

RowsList(items) == [t |-> "list", items |-> items, n |-> Len(items)]
RowsOther(t, n) == [t |-> t, items |-> <<>>, n |-> n]
RowsAbsent == RowsOther("absent", 0)

TotalsDict(h, r, u) == [t |-> "dict", hours |-> h, records |-> r, users |-> u]
TotalsOther(t) == [t |-> t, hours |-> Absent, records |-> Absent, users |-> Absent]
TotalsAbsent == TotalsOther("absent")

PayloadDict(r, t) == [t |-> "dict", rows |-> r, totals |-> t]
PayloadOther(t) == [t |-> t, rows |-> RowsAbsent, totals |-> TotalsAbsent]
NoPayload == PayloadOther("unset")

(***************************************************************************)
(* Exceptions.                                                             *)
(***************************************************************************)
Exc(type, msg) == [type |-> type, msg |-> msg]
NoExc == Exc("", "")

PyType(t) ==
    CASE t = "null" -> "NoneType"
      [] t = "bool" -> "bool"
      [] t = "int" -> "int"
      [] t = "float" -> "float"
      [] t = "str" -> "str"
      [] t = "list" -> "list"
      [] OTHER -> "dict"

NoAttrGet(t) == Exc("AttributeError", "'" \o PyType(t) \o "' object has no attribute 'get'")

(***************************************************************************)
(* Python built-ins used by build_summary.                                 *)
(***************************************************************************)
\* dict.get(key, default): v is the stored value, Absent when the key is missing
Get(v, default) == IF v = Absent THEN default ELSE v

\* truth value of a JSON value
Truthy(v) ==
    CASE v.t = "str" -> v.s # ""
      [] v.t = "float" -> v.n # 0
      [] v.t \in {"int", "bool", "list", "dict"} -> v.n # 0
      [] OTHER -> FALSE

Hashable(v) == v.t \notin {"list", "dict"}

Conv(ok, n, e, x) == [ok |-> ok, n |-> n, e |-> e, exc |-> x]

\* float(v): thousandths and error sign, or the exception raised
FloatOf(v) ==
    CASE v.t \in {"int", "bool"} -> Conv(TRUE, 1000 * v.n, 0, NoExc)
      [] v.t = "float" -> Conv(TRUE, v.n, v.e, NoExc)
      [] v.t = "str" ->
           Conv(FALSE, 0, 0, Exc("ValueError",
                "could not convert string to float: '" \o v.s \o "'"))
      [] OTHER ->
           Conv(FALSE, 0, 0, Exc("TypeError",
                "float() argument must be a string or a real number, not '"
                \o PyType(v.t) \o "'"))

\* truncation toward zero of n thousandths
Trunc(n) == IF n >= 0 THEN n \div 1000 ELSE -((-n) \div 1000)

\* int(v)
IntOf(v) ==
    CASE v.t \in {"int", "bool"} -> Conv(TRUE, v.n, 0, NoExc)
      [] v.t = "float" -> Conv(TRUE, Trunc(v.n), 0, NoExc)
      [] v.t = "str" ->
           Conv(FALSE, 0, 0, Exc("ValueError",
                "invalid literal for int() with base 10: '" \o v.s \o "'"))
      [] OTHER ->
           Conv(FALSE, 0, 0, Exc("TypeError",
                "int() argument must be a string, a bytes-like object or a real number, not '"
                \o PyType(v.t) \o "'"))

\* len(rows)
LenOf(r) ==
    IF r.t \in {"list", "str", "dict"}
    THEN Conv(TRUE, r.n, 0, NoExc)
    ELSE Conv(FALSE, 0, 0, Exc("TypeError",
              "object of type '" \o PyType(r.t) \o "' has no len()"))

\* nearest even of two consecutive integers
EvenOf(q) == IF q % 2 = 0 THEN q ELSE q + 1

\* round(x, 2) of the double with decimal value n thousandths and error sign e,
\* in hundredths
Round2(n, e) ==
    LET q == n \div 10
        r == n % 10
    IN  IF r < 5 THEN q
        ELSE IF r > 5 THEN q + 1
        ELSE IF e > 0 THEN q + 1
        ELSE IF e < 0 THEN q
        ELSE EvenOf(q)

IsPow2(k) == k \in {1, 2, 4, 8, 16, 32, 64}

\* The directions a decimal tie of total_hours / record_count can take: an
\* exactly representable quotient goes to the even neighbour (0); scaling by a
\* power of two keeps the error sign of the dividend; any other quotient was
\* rounded by the division, to either side of the tie.
TieDirs(n, e, k) ==
    LET a == IF k < 0 THEN -k ELSE k
        m == IF k < 0 THEN -n ELSE n
        s == IF k < 0 THEN -e ELSE e
        odd == m \div (5 * a)
    IN  IF m % (5 * a) = 0 /\ odd % 2 # 0
        THEN IF odd % 25 = 0 /\ s = 0 THEN {0}
             ELSE IF IsPow2(a) /\ s # 0 THEN {s}
             ELSE {-1, 1}
        ELSE {0}

\* total_hours // record_count in place of the rounded quotient
DivRound2Floor(n, k, d) == 100 * (n \div (1000 * k))

\* round(total_hours / record_count, 2) in hundredths, d the tie direction
DivRound2(n, k, d) ==
    LET a == IF k < 0 THEN -k ELSE k
        m == IF k < 0 THEN -n ELSE n
        q == m \div (10 * a)
        r == m % (10 * a)
    IN  IF 2 * r < 10 * a THEN q
        ELSE IF 2 * r > 10 * a THEN q + 1
        ELSE IF d > 0 THEN q + 1
        ELSE IF d < 0 THEN q
        ELSE EvenOf(q)

Digit(k) == ToString(k)

\* "{x:.2f}" of a value of h hundredths
Fmt2(h) ==
    LET a == IF h < 0 THEN -h ELSE h
    IN  (IF h < 0 THEN "-" ELSE "") \o ToString(a \div 100) \o "."
        \o Digit((a % 100) \div 10) \o Digit(a % 10)

(***************************************************************************)
(* Pieces of build_summary.                                                *)
(***************************************************************************)
Threshold == 12

\* isinstance(hours, (int, float)); bool is a subclass of int
IsNumber(h) == h.t \in {"int", "float", "bool"}

\* hours > 12 in place of hours >= 12
AtLeastThresholdStrict(h) == FloatOf(h).n > 1000 * Threshold

\* hours >= 12 for a number h
AtLeastThreshold(h) ==
    LET f == FloatOf(h)
    IN  f.n > 1000 * Threshold \/ (f.n = 1000 * Threshold /\ f.e >= 0)

\* the condition of line 32 on hours = row.get("hours")
IsAnomaly(row) ==
    LET hours == Get(row.hours, Null)
    IN  IsNumber(hours) /\ AtLeastThreshold(hours)

\* the entry with hours cut to two decimals in place of rounded
AnomalyEntryTruncated(row) ==
    [username |-> Get(row.username, JStr("unknown")),
     date |-> Get(row.date, JStr("")),
     hours |-> FloatOf(Get(row.hours, Null)).n \div 10]

\* the entry appended for an anomalous row
AnomalyEntry(row) ==
    LET f == FloatOf(Get(row.hours, Null))
    IN  [username |-> Get(row.username, JStr("unknown")),
         date |-> Get(row.date, JStr("")),
         hours |-> Round2(f.n, f.e)]

\* row["username"] in place of row.get("username"): a row without username
\* raises KeyError
UsernameSetExcKeyError(r) ==
    IF \E i \in 1..Len(r.items) : r.items[i].username = Absent
    THEN Exc("KeyError", "'username'")
    ELSE NoExc

\* the exception raised while the set comprehension of line 27 runs over rows
\* r, NoExc when it completes: iterating a non-empty string or object yields
\* strings, which have no get; a truthy unhashable username cannot enter a set
UsernameSetExc(r) ==
    IF r.t \in {"str", "dict"} /\ r.n > 0 THEN NoAttrGet("str")
    ELSE LET bad == {i \in 1..Len(r.items) :
                        \/ r.items[i].t # "dict"
                        \/ /\ Truthy(r.items[i].username)
                           /\ ~Hashable(r.items[i].username)}
         IN  IF bad = {} THEN NoExc
             ELSE LET i == CHOOSE j \in bad : \A k \in bad : j <= k
                  IN  IF r.items[i].t # "dict" THEN NoAttrGet(r.items[i].t)
                      ELSE Exc("TypeError", "unhashable type: '"
                               \o PyType(r.items[i].username.t) \o "'")

\* a list in place of the set: duplicates are counted
CountUsernames(r) ==
    Cardinality({j \in 1..Len(r.items) : Truthy(r.items[j].username)})

\* len({row.get('username') for row in rows if row.get('username')})
DistinctUsers(r) ==
    Cardinality({r.items[i].username : i \in {j \in 1..Len(r.items) :
                                                Truthy(r.items[j].username)}})

\* a default payload that claims one record
DefaultPayloadOneRecord ==
    PayloadDict(RowsList(<<>>), TotalsDict(JInt(0), JInt(1), JInt(0)))

\* the payload load_payload returns for blank input
DefaultPayload ==
    PayloadDict(RowsList(<<>>), TotalsDict(JInt(0), JInt(0), JInt(0)))

\* raw.strip()
Strip(in) == [in EXCEPT !.ws = FALSE]

\* the first nine fragments of the summary sentence (lines 43-46)
Sentence(rc, uc, th, avg) ==
    << "Processed ", ToString(rc), " attendance records for ", ToString(uc),
       " user(s). ", "Total hours: " \o Fmt2(Round2(th.n, th.e)),
       ". Average hours per record: ", Fmt2(avg), "." >>

\* the clause chosen by len(anomalies) > 1
TrailingClauseMany(anoms) ==
    IF Len(anoms) > 1
    THEN " Found " \o ToString(Len(anoms))
         \o " potential anomaly entries with 12+ hours."
    ELSE " No high-hour anomalies detected."

\* the trailing clause (lines 48-51)
TrailingClause(anoms) ==
    IF anoms # <<>>
    THEN " Found " \o ToString(Len(anoms))
         \o " potential anomaly entries with 12+ hours."
    ELSE " No high-hour anomalies detected."

\* json.dumps(output): the serialized text, kept as the document it encodes
Dumps(o) == [json |-> o]

\* the message without its prefix
DiagnosticBare(x) == x.msg \o "\n"

\* the line main writes to stderr
Diagnostic(x) == "python-summary-error: " \o x.msg \o "\n"

(***************************************************************************)
(* The inputs: what stdin can hold.  ws says whether white space surrounds *)
(* the body; the body is empty, text that is no JSON, or a JSON document.  *)
(***************************************************************************)
Input(ws, body, doc) == [ws |-> ws, body |-> body, doc |-> doc]
JsonInput(doc) == Input(FALSE, "json", doc)

SeqsUpTo(S, k) == UNION {[1..m -> S] : m \in 0..k}

\* rows that exercise the anomaly test: every kind of hours value
HoursA ==
    {Absent, JStr("x"), JTrue, JInt(5), JInt(12), JFloat(11990, 1),
     JFloat(12345, 1), JFloat(12348, 1), JFloat(12125, 0)}
RowsA ==
    {Row(ud[1], ud[2], h) :
        ud \in {<<Absent, Absent>>, <<JStr("a"), JStr("2024-01-01")>>,
                <<JStr("b"), Absent>>},
        h \in HoursA}
InputsA ==
    {JsonInput(PayloadDict(RowsList(rs), TotalsAbsent)) :
        rs \in SeqsUpTo(RowsA, MaxRowsA)}

\* rows that exercise the distinct-user count
RowsU == {Row(u, Absent, Absent) : u \in {Absent, JStr(""), JStr("a"), JStr("b")}}
InputsU ==
    {JsonInput(PayloadDict(RowsList(rs), t)) :
        rs \in SeqsUpTo(RowsU, MaxRowsU),
        t \in {TotalsAbsent, TotalsDict(Absent, Absent, JInt(3))}}

\* payloads that exercise the totals and the average
RowsT == {Row(Absent, Absent, JInt(2)), Row(Absent, Absent, JInt(3))}
TotalsT ==
    {TotalsDict(h, r, u) :
        h \in {Absent, JInt(0), JInt(1), JInt(10), JFloat(60, -1), JStr("abc")},
        r \in {Absent, JInt(0), JInt(3), JInt(4), JInt(8), JInt(12),
               JFloat(2500, 0), JStr("four")},
        u \in {Absent, JInt(2), Null}}
InputsT ==
    {JsonInput(PayloadDict(RowsList(rs), t)) :
        rs \in SeqsUpTo(RowsT, MaxRowsU), t \in TotalsT \cup {TotalsAbsent}}

\* blank and malformed input, and payloads of the wrong shape
RowsM ==
    {NullRow, Row(Absent, Absent, Absent), Row(JList(1), Absent, JInt(5)),
     Row(JList(0), Absent, Absent), Row(Null, Absent, JInt(13)),
     Row(JStr("a"), Absent, JStr("x"))}
RowsValuesM ==
    {RowsAbsent, RowsOther("null", 0), RowsOther("int", 5), RowsOther("str", 0),
     RowsOther("str", 2), RowsOther("dict", 0), RowsOther("dict", 1)}
    \cup {RowsList(rs) : rs \in SeqsUpTo(RowsM, MaxRowsA)}
TotalsValuesM ==
    {TotalsAbsent, TotalsOther("null"), TotalsOther("list"),
     TotalsDict(Absent, Absent, Absent), TotalsDict(JInt(1), JInt(1), JInt(1))}
InputsM ==
    {Input(FALSE, "", NoPayload), Input(TRUE, "", NoPayload),
     Input(FALSE, "garbage", NoPayload), Input(TRUE, "garbage", NoPayload),
     JsonInput(PayloadOther("list")), JsonInput(PayloadOther("null")),
     Input(TRUE, "json", PayloadDict(RowsAbsent, TotalsAbsent))}
    \cup {JsonInput(PayloadDict(r, t)) : r \in RowsValuesM, t \in TotalsValuesM}

Inputs == InputsA \cup InputsU \cup InputsT \cup InputsM

(***************************************************************************)
(* The run of main().                                                      *)
(***************************************************************************)
Init ==
    /\ stdin \in Inputs
    /\ pc = "load"
    /\ payload = NoPayload
    /\ rows = RowsAbsent
    /\ totals = TotalsAbsent
    /\ total_hours = [n |-> 0, e |-> 0]
    /\ record_count = 0
    /\ user_count = 0
    /\ anomalies = <<>>
    /\ idx = 0
    /\ average_hours = 0
    /\ summary = <<>>
    /\ stdout = <<>>
    /\ stderr = <<>>
    /\ ret = -1
    /\ exc = NoExc

\* an exception propagates to the handler of main
Raise(x) == pc' = "except" /\ exc' = x

\* load_payload: read, strip, default payload for blank input, else json.loads
LoadPayload ==
    /\ pc = "load"
    /\ LET raw == Strip(stdin)
       IN  IF raw.body = ""
           THEN /\ payload' = DefaultPayload
                /\ pc' = "rows"
                /\ exc' = exc
           ELSE IF raw.body = "json"
           THEN /\ payload' = raw.doc
                /\ pc' = "rows"
                /\ exc' = exc
           ELSE /\ Raise(Exc("JSONDecodeError",
                             "Expecting value: line 1 column 1 (char 0)"))
                /\ payload' = payload
    /\ UNCHANGED <<stdin, rows, totals, total_hours, record_count, user_count,
                   anomalies, idx, average_hours, summary, stdout, stderr, ret>>

\* rows = payload.get("rows", []); totals = payload.get("totals", {})
GetRowsTotals ==
    /\ pc = "rows"
    /\ IF payload.t # "dict"
       THEN /\ Raise(NoAttrGet(payload.t))
            /\ UNCHANGED <<rows, totals>>
       ELSE /\ rows' = IF payload.rows.t = "absent" THEN RowsList(<<>>)
                       ELSE payload.rows
            /\ totals' = IF payload.totals.t = "absent"
                         THEN TotalsDict(Absent, Absent, Absent)
                         ELSE payload.totals
            /\ pc' = "hours"
            /\ exc' = exc
    /\ UNCHANGED <<stdin, payload, total_hours, record_count, user_count,
                   anomalies, idx, average_hours, summary, stdout, stderr, ret>>

\* total_hours = float(totals.get("hours", 0))
TotalHours ==
    /\ pc = "hours"
    /\ IF totals.t # "dict"
       THEN /\ Raise(NoAttrGet(totals.t))
            /\ total_hours' = total_hours
       ELSE LET f == FloatOf(Get(totals.hours, JInt(0)))
            IN  IF f.ok
                THEN /\ total_hours' = [n |-> f.n, e |-> f.e]
                     /\ pc' = "records"
                     /\ exc' = exc
                ELSE /\ Raise(f.exc)
                     /\ total_hours' = total_hours
    /\ UNCHANGED <<stdin, payload, rows, totals, record_count, user_count,
                   anomalies, idx, average_hours, summary, stdout, stderr, ret>>

\* record_count = int(totals.get("records", len(rows))); the default is
\* evaluated before the lookup
RecordCount ==
    /\ pc = "records"
    /\ LET l == LenOf(rows)
           c == IntOf(Get(totals.records, JInt(l.n)))
       IN  IF ~l.ok
           THEN /\ Raise(l.exc)
                /\ record_count' = record_count
           ELSE IF ~c.ok
           THEN /\ Raise(c.exc)
                /\ record_count' = record_count
           ELSE /\ record_count' = c.n
                /\ pc' = "users"
                /\ exc' = exc
    /\ UNCHANGED <<stdin, payload, rows, totals, total_hours, user_count,
                   anomalies, idx, average_hours, summary, stdout, stderr, ret>>

\* user_count = int(totals.get("users", len({...}))); the default is evaluated
\* before the lookup.  Then anomalies = [] and the loop starts.
UserCount ==
    /\ pc = "users"
    /\ LET x == UsernameSetExc(rows)
           c == IntOf(Get(totals.users, JInt(DistinctUsers(rows))))
       IN  IF x # NoExc
           THEN /\ Raise(x)
                /\ UNCHANGED <<user_count, anomalies, idx>>
           ELSE IF ~c.ok
           THEN /\ Raise(c.exc)
                /\ UNCHANGED <<user_count, anomalies, idx>>
           ELSE /\ user_count' = c.n
                /\ anomalies' = <<>>
                /\ idx' = 1
                /\ pc' = "loop"
                /\ exc' = exc
    /\ UNCHANGED <<stdin, payload, rows, totals, total_hours, record_count,
                   average_hours, summary, stdout, stderr, ret>>

\* one iteration of "for row in rows" (lines 30-39)
AnomalyStep ==
    /\ pc = "loop"
    /\ idx <= Len(rows.items)
    /\ anomalies' = IF IsAnomaly(rows.items[idx])
                    THEN Append(anomalies, AnomalyEntry(rows.items[idx]))
                    ELSE anomalies
    /\ idx' = idx + 1
    /\ UNCHANGED <<stdin, pc, payload, rows, totals, total_hours, record_count,
                   user_count, average_hours, summary, stdout, stderr, ret, exc>>

\* the average without its guard: division by zero raises
AverageUnguarded ==
    /\ pc = "loop"
    /\ idx > Len(rows.items)
    /\ IF record_count # 0
       THEN /\ \E d \in TieDirs(total_hours.n, total_hours.e, record_count) :
                  average_hours' = DivRound2(total_hours.n, record_count, d)
            /\ pc' = "compose"
            /\ exc' = exc
       ELSE /\ Raise(Exc("ZeroDivisionError", "float division by zero"))
            /\ average_hours' = average_hours
    /\ UNCHANGED <<stdin, payload, rows, totals, total_hours, record_count,
                   user_count, anomalies, idx, summary, stdout, stderr, ret>>

\* average_hours = round(total_hours / record_count, 2) if record_count else 0
Average ==
    /\ pc = "loop"
    /\ idx > Len(rows.items)
    /\ IF record_count # 0
       THEN \E d \in TieDirs(total_hours.n, total_hours.e, record_count) :
                average_hours' = DivRound2(total_hours.n, record_count, d)
       ELSE average_hours' = 0
    /\ pc' = "compose"
    /\ UNCHANGED <<stdin, payload, rows, totals, total_hours, record_count,
                   user_count, anomalies, idx, summary, stdout, stderr, ret, exc>>

\* the summary sentence and its trailing clause (lines 43-51)
Compose ==
    /\ pc = "compose"
    /\ summary' = Append(Sentence(record_count, user_count, total_hours,
                                  average_hours),
                         TrailingClause(anomalies))
    /\ pc' = "write"
    /\ UNCHANGED <<stdin, payload, rows, totals, total_hours, record_count,
                   user_count, anomalies, idx, average_hours, stdout, stderr,
                   ret, exc>>

\* rowCount taken from the number of rows
OutputRowsLen ==
    [summary |-> summary, anomalies |-> anomalies, rowCount |-> Len(rows.items)]

\* the value build_summary returns (lines 53-57)
Output ==
    [summary |-> summary, anomalies |-> anomalies, rowCount |-> record_count]

\* sys.stdout.write(json.dumps(output)); return 0
WriteOutput ==
    /\ pc = "write"
    /\ stdout' = Append(stdout, Dumps(Output))
    /\ ret' = 0
    /\ pc' = "done"
    /\ UNCHANGED <<stdin, payload, rows, totals, total_hours, record_count,
                   user_count, anomalies, idx, average_hours, summary, stderr,
                   exc>>

\* except Exception as exc: write the diagnostic line; return 1
Except ==
    /\ pc = "except"
    /\ stderr' = Append(stderr, Diagnostic(exc))
    /\ ret' = 1
    /\ pc' = "done"
    /\ UNCHANGED <<stdin, payload, rows, totals, total_hours, record_count,
                   user_count, anomalies, idx, average_hours, summary, stdout,
                   exc>>

Next ==
    \/ LoadPayload
    \/ GetRowsTotals
    \/ TotalHours
    \/ RecordCount
    \/ UserCount
    \/ AnomalyStep
    \/ Average
    \/ Compose
    \/ WriteOutput
    \/ Except

Spec == Init /\ [][Next]_vars

(***************************************************************************)
(* Vocabulary of the properties.                                           *)
(***************************************************************************)
Returned == pc = "done" /\ ret = 0
Failed == pc = "done" /\ ret = 1
Result == stdout[1].json

\* the rows of the parsed payload, as a sequence
InRows == payload.rows.items

\* value of a JSON number in thousandths
Milli(v) == IF v.t = "float" THEN v.n ELSE 1000 * v.n

\* a row whose hours field is present, is a JSON number and is at least 12
Qualifies(row) ==
    /\ row.hours.t \in {"int", "float"}
    /\ Milli(row.hours) >= 12000

Indices(items) == [i \in 1..Len(items) |-> i]
QualifyingIdx(items) == SelectSeq(Indices(items), LAMBDA i : Qualifies(items[i]))

Abs(x) == IF x < 0 THEN -x ELSE x

\* an exception was raised before the loop over the rows began
RaisedBeforeLoop == idx = 0

\* C1: a row is put into anomalies if and only if its hours field is present,
\* is a number and is >= 12 (12 is an anomaly, 11.99 is not), and a row whose
\* hours is missing or non-numeric is skipped without an error: after each
\* iteration the anomalies hold one entry per qualifying row seen so far, and
\* no exception arises once the loop has begun.
C1_AnomalyIffAtLeast12 ==
    /\ pc = "loop" \/ Returned =>
          Len(anomalies) = Len(QualifyingIdx(SubSeq(rows.items, 1, idx - 1)))
    /\ pc = "except" => RaisedBeforeLoop
    /\ Returned =>
          /\ idx = Len(InRows) + 1
          /\ Len(Result.anomalies) = Len(QualifyingIdx(InRows))

\* a run over a row with hours = 12 and a row with hours = 11.99 returned
\* exactly one anomaly
C1_Witness ==
    /\ Returned
    /\ Len(InRows) = 2
    /\ InRows[1].hours = JFloat(11990, 1)
    /\ InRows[2].hours = JInt(12)
    /\ Len(Result.anomalies) = 1

\* C2: the returned anomalies are an order-preserving subsequence of the
\* rows: the k-th entry comes from the k-th qualifying row and carries its
\* username ("unknown" when absent), its date ("" when absent) and its hours
\* rounded to two decimals (a multiple of 0.01 within 0.005 of the hours).
C2_AnomaliesOrderedEntries ==
    Returned =>
        LET q == QualifyingIdx(InRows)
            a == Result.anomalies
        IN  /\ Len(a) = Len(q)
            /\ \A k \in 1..Len(a) :
                  LET row == InRows[q[k]]
                  IN  /\ a[k].username = IF row.username = Absent
                                         THEN JStr("unknown") ELSE row.username
                      /\ a[k].date = IF row.date = Absent
                                     THEN JStr("") ELSE row.date
                      /\ Abs(10 * a[k].hours - Milli(row.hours)) <= 5

\* two anomalies of different users returned in row order, one rounded up
C2_Witness ==
    /\ Returned
    /\ Len(Result.anomalies) = 2
    /\ Result.anomalies[1].username = JStr("b")
    /\ Result.anomalies[1].hours = 1235
    /\ InRows[1].hours = JFloat(12348, 1)
    /\ Result.anomalies[2].username = JStr("unknown")
    /\ Result.anomalies[2].date = JStr("")

\* the integer value of a JSON number: the number itself, or the integer part
\* of a non-negative floating point number
IntegerValue(v) ==
    IF v.t = "float"
    THEN CHOOSE k \in 0..(v.n \div 1000 + 1) : 1000 * k <= v.n /\ v.n < 1000 * (k + 1)
    ELSE v.n

\* the distinct non-empty usernames among rows
NamesIn(items) ==
    {items[i].username.s : i \in {j \in 1..Len(items) : items[j].username.t = "str"}}
    \ {""}

\* C3: caller-supplied totals take precedence: total_hours is totals.hours when
\* supplied and 0 otherwise, record_count is (the integer value of)
\* totals.records when supplied and the number of rows otherwise, user_count is
\* totals.users when supplied and the distinct-username count otherwise; the
\* returned rowCount equals the record_count printed in the sentence.
C3_TotalsTakePrecedence ==
    Returned =>
        LET t == payload.totals
        IN  /\ total_hours.n = IF t.hours # Absent THEN Milli(t.hours) ELSE 0
            /\ record_count = IF t.records # Absent THEN IntegerValue(t.records)
                              ELSE payload.rows.n
            /\ user_count = IF t.users # Absent THEN IntegerValue(t.users)
                            ELSE Cardinality(NamesIn(InRows))
            /\ Result.rowCount = record_count
            /\ Result.summary[2] = ToString(Result.rowCount)

\* totals {hours: 10, records: 4, users: 2} supplied over three rows
C3_Witness ==
    /\ Returned
    /\ payload.totals = TotalsDict(JInt(10), JInt(4), JInt(2))
    /\ Len(InRows) = 3
    /\ Result.rowCount = 4
    /\ user_count = 2
    /\ total_hours.n = 10000

\* C4: average_hours is total_hours / record_count rounded to two decimals
\* whenever record_count is nonzero, and is 0, with no error raised, whenever
\* record_count is zero, also when totals.records is 0 and rows is non-empty.
C4_AverageOrZero ==
    /\ pc = "except" => RaisedBeforeLoop
    /\ pc \in {"compose", "write"} \/ Returned =>
          /\ record_count # 0 =>
                Abs(10 * average_hours * record_count - total_hours.n)
                    <= 5 * Abs(record_count)
          /\ record_count = 0 => average_hours = 0
    /\ Returned => Result.summary[8] = Fmt2(average_hours)

\* totals.records = 0 over a non-empty list of rows returned an average of 0
C4_Witness ==
    /\ Returned
    /\ payload.totals.records = JInt(0)
    /\ payload.totals.hours = JInt(10)
    /\ Len(InRows) > 0
    /\ average_hours = 0
    /\ Result.summary[8] = "0.00"

\* sum of the rows' numeric hours, in thousandths
RECURSIVE SumHours(_)
SumHours(items) ==
    IF items = <<>> THEN 0
    ELSE (IF Head(items).hours.t \in {"int", "float"}
          THEN Milli(Head(items).hours) ELSE 0) + SumHours(Tail(items))

NoTotalsGiven == payload.totals \in {TotalsAbsent, TotalsDict(Absent, Absent, Absent)}

\* four rows whose hours sum to 10 and no totals in the payload
TenHoursInFourRows ==
    /\ NoTotalsGiven
    /\ Len(InRows) = 4
    /\ SumHours(InRows) = 10000

\* C5 as stated: with no explicit totals, rows summing to 10 hours across 4
\* records give average_hours = 2.50, as totals {hours: 10, records: 4} do.
C5_Original ==
    /\ Returned /\ TenHoursInFourRows =>
          average_hours = 250 /\ Result.summary[8] = "2.50"
    /\ Returned /\ payload.totals.hours = JInt(10)
                /\ payload.totals.records = JInt(4) =>
          average_hours = 250 /\ Result.summary[8] = "2.50"

\* C5 amended: totals {hours: 10, records: 4} give average_hours = 2.50; with
\* no explicit totals the rows' hours are not summed, so rows summing to 10
\* hours across 4 records give total_hours = 0 and average_hours = 0.00.
C5_AverageFromTotalsOnly ==
    /\ Returned /\ TenHoursInFourRows =>
          /\ total_hours.n = 0
          /\ record_count = 4
          /\ average_hours = 0
          /\ Result.summary[6] = "Total hours: 0.00"
          /\ Result.summary[8] = "0.00"
    /\ Returned /\ payload.totals.hours = JInt(10)
                /\ payload.totals.records = JInt(4) =>
          average_hours = 250 /\ Result.summary[8] = "2.50"

\* a run over four rows with hours 2, 3, 2, 3 and no totals returned
C5_Witness ==
    /\ Returned
    /\ TenHoursInFourRows
    /\ InRows[1].hours = JInt(2)
    /\ InRows[2].hours = JInt(3)

\* C6: when totals.users is not supplied, user_count is the number of distinct
\* non-empty usernames across all rows: duplicates collapse, rows with an
\* absent or empty username are not counted, and only the set of names, not
\* the order of the rows, determines it.
C6_DistinctUserCount ==
    pc \in {"loop", "compose", "write"} \/ Returned =>
        (payload.totals.users = Absent =>
            user_count = Cardinality(NamesIn(InRows)))

\* usernames a, a, b and one row without username give 2
C6_Witness ==
    /\ Returned
    /\ Len(InRows) = 4
    /\ InRows[1].username = JStr("a")
    /\ InRows[2].username = JStr("a")
    /\ InRows[3].username = JStr("b")
    /\ InRows[4].username = Absent
    /\ payload.totals = TotalsAbsent
    /\ user_count = 2
    /\ Result.summary[4] = "2"

Last(seq) == seq[Len(seq)]

\* C7: the summary ends with " Found N potential anomaly entries with 12+
\* hours." exactly when the returned anomalies are non-empty, N their number,
\* and with " No high-hour anomalies detected." exactly when they are empty.
C7_TrailingClause ==
    Returned =>
        LET a == Result.anomalies
            found == " Found " \o ToString(Len(a))
                     \o " potential anomaly entries with 12+ hours."
            none == " No high-hour anomalies detected."
        IN  /\ Len(Result.summary) = 10
            /\ Last(Result.summary) \in {found, none}
            /\ Last(Result.summary) = found <=> a # <<>>
            /\ Last(Result.summary) = none <=> a = <<>>

\* a run that found two anomalies
C7_Witness ==
    /\ Returned
    /\ Len(Result.anomalies) = 2
    /\ Last(Result.summary) = " Found 2 potential anomaly entries with 12+ hours."

\* C8: output is all-or-nothing.  Nothing is written before main returns; a
\* failed run (an exception from load_payload or build_summary) has written
\* the one line "python-summary-error: {message}" to stderr, nothing to stdout,
\* and returns non-zero; a successful run has written the serialized result to
\* stdout, nothing to stderr, and returns zero.
C8_AllOrNothing ==
    /\ pc # "done" => stdout = <<>> /\ stderr = <<>> /\ ret = -1
    /\ pc = "done" =>
          \/ /\ exc = NoExc
             /\ ret = 0
             /\ stderr = <<>>
             /\ stdout = <<Dumps([summary |-> summary, anomalies |-> anomalies,
                                  rowCount |-> record_count])>>
          \/ /\ exc # NoExc
             /\ ret # 0
             /\ stdout = <<>>
             /\ stderr = <<"python-summary-error: " \o exc.msg \o "\n">>
    /\ pc = "done" /\ Strip(stdin).body = "garbage" => ret # 0
    /\ pc = "done" /\ payload.totals.hours.t = "str" => ret # 0

\* unparseable input ended in the diagnostic and status 1
C8_Witness ==
    /\ Failed
    /\ stdin.body = "garbage"
    /\ stdout = <<>>
    /\ stderr = <<"python-summary-error: Expecting value: line 1 column 1 (char 0)\n">>

\* the payload has the expected shape: a mapping whose rows, if present, are a
\* sequence of mappings with a textual (or null or absent) username, and whose
\* totals, if present, are a mapping of numbers
WellShaped(p) ==
    /\ p.t = "dict"
    /\ p.rows.t \in {"absent", "list"}
    /\ \A i \in 1..Len(p.rows.items) :
          /\ p.rows.items[i].t = "dict"
          /\ p.rows.items[i].username.t \in {"absent", "null", "str"}
    /\ p.totals.t \in {"absent", "dict"}
    /\ \A v \in {p.totals.hours, p.totals.records, p.totals.users} :
          v.t \in {"absent", "int", "float"}

RECURSIVE Join(_)
Join(seq) == IF seq = <<>> THEN "" ELSE Head(seq) \o Join(Tail(seq))

\* input that is empty or only white space
BlankInput == Strip(stdin).body = ""

\* a parsed payload with no rows and no totals fields
EmptyPayload ==
    /\ stdin.body = "json"
    /\ stdin.doc.t = "dict"
    /\ stdin.doc.rows \in {RowsAbsent, RowsList(<<>>)}
    /\ stdin.doc.totals \in {TotalsAbsent, TotalsDict(Absent, Absent, Absent)}

\* C10: blank input, and a payload with no rows and no totals fields, is not
\* an error: the run returns zero with the zero summary, no anomalies and
\* rowCount 0.
C10_EmptyInputZeroSummary ==
    pc = "done" /\ (BlankInput \/ EmptyPayload) =>
        /\ ret = 0
        /\ stderr = <<>>
        /\ Len(stdout) = 1
        /\ Join(SubSeq(Result.summary, 1, 9)) =
              "Processed 0 attendance records for 0 user(s). Total hours: 0.00. Average hours per record: 0.00."
        /\ Last(Result.summary) = " No high-hour anomalies detected."
        /\ Result.anomalies = <<>>
        /\ Result.rowCount = 0

\* a run on white space only returned the zero summary
C10_Witness ==
    /\ Returned
    /\ stdin = Input(TRUE, "", NoPayload)
    /\ Result.rowCount = 0
    /\ Last(Result.summary) = " No high-hour anomalies detected."

====
